---- MODULE Spec2Model ----
(***************************************************************************)
(* A model of src/cli/cluster/base_path_proxy.js: the development-mode     *)
(* base-path proxy.  The constructor resolves the base path and registers  *)
(* three routes; the proxy route's pre-handler holds a request until every *)
(* server worker that was starting has emitted 'listening' or 'crashed'.   *)
(*                                                                         *)
(* Strings are sequences of one-character strings, so that length,         *)
(* startsWith, concatenation and splitting are computed, not assumed.      *)
(***************************************************************************)
EXTENDS Integers, Sequences, FiniteSets, TLC

VARIABLES
    phase,      \* "new", "constructed", "failed", "listening": the gateway's life
    settings,   \* the user settings the constructor was given
    config,     \* the Config store: server.basePath, server.maxPayloadBytes
    basePath,   \* this.basePath
    proxyAgent, \* this.proxyAgent: "none", "pfx" or "pem"
    routes,     \* the routes registered on this.server
    error,      \* what the constructor threw, "none" if nothing
    steps,      \* what the constructor did, in order: files read, keys set, setups
    workers,    \* clusterManager.workers: each worker's type, listening, crashed
    listeners,  \* each worker's EventEmitter listener arrays, per event
    req         \* the requests: input, route, response and readiness wait

vars == <<phase, settings, config, basePath, proxyAgent, routes, error, steps,
          workers, listeners, req>>

(***************************************************************************)
(* Bounds of the model.                                                    *)
(***************************************************************************)
MaxWorkers == 2
MaxReq == 2
MaxSegs == 3
MaxSampleIdx == 3
CallCap == 2

WorkerIds == 1..MaxWorkers
ReqIds == 1..MaxReq

None == <<"absent">>

(***************************************************************************)
(* Strings.                                                                *)
(***************************************************************************)
Slash == <<"/">>
S_app == <<"a", "p", "p">>
S_apps == <<"a", "p", "p", "s">>
S_login == <<"l", "o", "g", "i", "n">>
S_logout == <<"l", "o", "g", "o", "u", "t">>
S_status == <<"s", "t", "a", "t", "u", "s">>
S_abc == <<"a", "b", "c">>
S_abcd == <<"a", "b", "c", "d">>
S_x == <<"x">>
S_kb == <<"k", "b">>
Empty == <<>>

\* String.prototype.startsWith
StartsWith(s, prefix) ==
    /\ Len(s) >= Len(prefix)
    /\ SubSeq(s, 1, Len(prefix)) = prefix

\* Array.prototype.join('/') of a sequence of strings
RECURSIVE Join(_)
Join(segs) ==
    IF segs = <<>> THEN <<>>
    ELSE IF Len(segs) = 1 THEN segs[1]
    ELSE segs[1] \o Slash \o Join(Tail(segs))

\* The segments of a request path: what follows each '/'.
RECURSIVE SplitFrom(_, _)
SplitFrom(s, cur) ==
    IF s = <<>> THEN <<cur>>
    ELSE IF Head(s) = "/" THEN <<cur>> \o SplitFrom(Tail(s), <<>>)
    ELSE SplitFrom(Tail(s), Append(cur, Head(s)))

Segments(path) == SplitFrom(Tail(path), <<>>)

(***************************************************************************)
(* The constructor.                                                        *)
(***************************************************************************)
alphabet ==
    <<"a", "b", "c", "d", "e", "f", "g", "h", "i", "j", "k", "l", "m",
      "n", "o", "p", "q", "r", "z", "t", "u", "v", "w", "x", "y", "z">>

ONE_GIGABYTE == 1024 * 1024 * 1024

\* lodash sample(alphabet, 3): three elements at distinct positions
Sample(idx) == <<alphabet[idx[1]], alphabet[idx[2]], alphabet[idx[3]]>>

RouteNames == {"root", "proxy", "legacy"}

NoConfig == [basePath |-> None, maxPayloadBytes |-> 0]

\* what the constructor does once the ssl block is behind it
Setup == <<"setupLogging", "setupConnection", "registerHapiPlugins", "setupRoutes">>

\* The user settings s the constructor is given:
\*   s.basePath        server.basePath, None when not set
\*   s.maxPayload      server.maxPayloadBytes of the settings
\*   s.ssl             server.ssl.enabled
\*   s.ca              whether server.ssl.certificateAuthorities names a file
\*   s.keystore, s.pem whether server.ssl.keystore.path, server.ssl.certificate are set
\*   s.unreadable      the file readFileSync fails on: "none", "ca", "pfx", "key", "cert"
\*   s.idx             the positions sample() draws

\* the ssl block reading the pfx or the key and certificate before its check
SslBlockChecksLast(s) ==
    LET ca == IF s.ca THEN <<"read:ca">> ELSE <<>>
        out(e, agent, did) == [error |-> e, proxyAgent |-> agent, steps |-> did]
    IN  IF ~s.ssl THEN out("none", "none", <<>>)
        ELSE IF s.ca /\ s.unreadable = "ca" THEN out("readError", "none", ca)
        ELSE IF s.keystore
             THEN IF s.unreadable = "pfx"
                  THEN out("readError", "none", ca \o <<"read:pfx">>)
                  ELSE IF s.pem
                  THEN out("conflict", "none", ca \o <<"read:pfx">>)
                  ELSE out("none", "pfx", ca \o <<"read:pfx">>)
             ELSE IF s.unreadable = "key"
                  THEN out("readError", "none", ca \o <<"read:key">>)
                  ELSE IF ~s.pem \/ s.unreadable = "cert"
                  THEN out("readError", "none", ca \o <<"read:key", "read:cert">>)
                  ELSE out("none", "pem", ca \o <<"read:key", "read:cert">>)

\* The ssl block: the error it throws, the proxy agent it leaves and the files
\* it reads.  The certificate authorities are read while the agent's options
\* are built, before the check for a keystore beside a certificate; a path
\* that is not set fails readFileSync as an unreadable file does.
SslBlock(s) ==
    LET ca == IF s.ca THEN <<"read:ca">> ELSE <<>>
        out(e, agent, did) == [error |-> e, proxyAgent |-> agent, steps |-> did]
    IN  IF ~s.ssl THEN out("none", "none", <<>>)
        ELSE IF s.ca /\ s.unreadable = "ca" THEN out("readError", "none", ca)
        ELSE IF s.keystore /\ s.pem THEN out("conflict", "none", ca)
        ELSE IF s.keystore
             THEN IF s.unreadable = "pfx"
                  THEN out("readError", "none", ca \o <<"read:pfx">>)
                  ELSE out("none", "pfx", ca \o <<"read:pfx">>)
             ELSE IF s.unreadable = "key"
                  THEN out("readError", "none", ca \o <<"read:key">>)
                  ELSE IF ~s.pem \/ s.unreadable = "cert"
                  THEN out("readError", "none", ca \o <<"read:key", "read:cert">>)
                  ELSE out("none", "pem", ca \o <<"read:key", "read:cert">>)

\* the base path generated without config.set
ResolveBasePathUnset(s) ==
    IF s.basePath = None
    THEN [basePath |-> Slash \o Sample(s.idx), config |-> None, steps |-> <<>>]
    ELSE [basePath |-> s.basePath, config |-> s.basePath, steps |-> <<>>]

\* this.basePath, server.basePath of the config and the config.set call, after
\* the if of the constructor
ResolveBasePath(s) ==
    IF s.basePath = None
    THEN [basePath |-> Slash \o Sample(s.idx), config |-> Slash \o Sample(s.idx),
          steps |-> <<"set:server.basePath">>]
    ELSE [basePath |-> s.basePath, config |-> s.basePath, steps |-> <<>>]

\* the constructor resolving the base path and the payload limit before its
\* ssl block
BasePathProxySslLast(s) ==
    LET ssl == SslBlock(s)
        bp == ResolveBasePath(s)
        cfg == [basePath |-> bp.config, maxPayloadBytes |-> ONE_GIGABYTE]
        did == bp.steps \o <<"set:server.maxPayloadBytes">> \o ssl.steps
    IN  IF ssl.error # "none"
        THEN [phase |-> "failed", error |-> ssl.error, config |-> cfg,
              basePath |-> bp.basePath, proxyAgent |-> "none", routes |-> {},
              steps |-> did]
        ELSE [phase |-> "constructed", error |-> "none", config |-> cfg,
              basePath |-> bp.basePath, proxyAgent |-> ssl.proxyAgent,
              routes |-> RouteNames, steps |-> did \o Setup]

\* the constructor leaving the payload limit of the settings
BasePathProxyKeepsLimit(s) ==
    LET ssl == SslBlock(s)
        bp == ResolveBasePath(s)
    IN  IF ssl.error # "none"
        THEN [phase |-> "failed", error |-> ssl.error,
              config |-> [basePath |-> s.basePath, maxPayloadBytes |-> s.maxPayload],
              basePath |-> s.basePath, proxyAgent |-> "none", routes |-> {},
              steps |-> ssl.steps]
        ELSE [phase |-> "constructed", error |-> "none",
              config |-> [basePath |-> bp.config, maxPayloadBytes |-> s.maxPayload],
              basePath |-> bp.basePath, proxyAgent |-> ssl.proxyAgent,
              routes |-> RouteNames,
              steps |-> ssl.steps \o bp.steps \o Setup]

\* The state the constructor leaves, given the user settings s: an error of
\* the ssl block leaves the config as the settings made it and nothing set up.
BasePathProxy(s) ==
    LET ssl == SslBlock(s)
        bp == ResolveBasePath(s)
    IN  IF ssl.error # "none"
        THEN [phase |-> "failed", error |-> ssl.error,
              config |-> [basePath |-> s.basePath, maxPayloadBytes |-> s.maxPayload],
              basePath |-> s.basePath, proxyAgent |-> "none", routes |-> {},
              steps |-> ssl.steps]
        ELSE [phase |-> "constructed", error |-> "none",
              config |-> [basePath |-> bp.config, maxPayloadBytes |-> ONE_GIGABYTE],
              basePath |-> bp.basePath, proxyAgent |-> ssl.proxyAgent,
              routes |-> RouteNames,
              steps |-> ssl.steps \o bp.steps \o <<"set:server.maxPayloadBytes">>
                            \o Setup]

(***************************************************************************)
(* The routes.                                                             *)
(***************************************************************************)
\* the lookup trying the legacy route before the proxy route
LookupLegacyFirst(method, path, bp) ==
    IF path = Slash
    THEN IF method \in {"get", "head"} THEN "root" ELSE "none"
    ELSE IF Segments(path)[1] # <<>> THEN "legacy"
    ELSE IF path = bp \/ StartsWith(path, bp \o Slash) THEN "proxy"
    ELSE "none"

\* the lookup of a proxy route whose {kbnPath} takes one segment at least
LookupNeedsSegment(method, path, bp) ==
    IF path = Slash
    THEN IF method \in {"get", "head"} THEN "root" ELSE "none"
    ELSE IF StartsWith(path, bp \o Slash) THEN "proxy"
    ELSE IF Segments(path)[1] # <<>> THEN "legacy"
    ELSE "none"

\* The route the server picks for a request: a literal segment wins over a
\* parameter, a required parameter matches no empty segment, {kbnPath*}
\* matches any number of segments, none included.
Lookup(method, path, bp) ==
    IF path = Slash
    THEN IF method \in {"get", "head"} THEN "root" ELSE "none"
    ELSE IF path = bp \/ StartsWith(path, bp \o Slash) THEN "proxy"
    ELSE IF Segments(path)[1] # <<>> THEN "legacy"
    ELSE "none"

\* req.params of the legacy route
OldBasePath(path) == Segments(path)[1]
KbnPath(path) == Join(Tail(Segments(path)))

\* the handler redirecting to the base path with a slash after it
RootHandlerSlash(bp) == [kind |-> "redirect", location |-> bp \o Slash]

\* handler of GET /
RootHandler(bp) == [kind |-> "redirect", location |-> bp]

\* the handler taking any first segment of three characters or more
LegacyHandlerAtLeast3(method, path, bp) ==
    LET oldBasePath == OldBasePath(path)
        kbnPath == KbnPath(path)
        isGet == method = "get"
        isBasePath == Len(oldBasePath) >= 3
        isApp == StartsWith(kbnPath, S_app \o Slash)
        isKnownShortPath == kbnPath \in {S_login, S_logout, S_status}
    IN  IF isGet /\ isBasePath /\ (isApp \/ isKnownShortPath)
        THEN [kind |-> "redirect", location |-> bp \o Slash \o kbnPath]
        ELSE [kind |-> "notFound", location |-> None]

\* handler of /{oldBasePath}/{kbnPath*}
LegacyHandler(method, path, bp) ==
    LET oldBasePath == OldBasePath(path)
        kbnPath == KbnPath(path)
        isGet == method = "get"
        isBasePath == Len(oldBasePath) = 3
        isApp == StartsWith(kbnPath, S_app \o Slash)
        isKnownShortPath == kbnPath \in {S_login, S_logout, S_status}
    IN  IF isGet /\ isBasePath /\ (isApp \/ isKnownShortPath)
        THEN [kind |-> "redirect", location |-> bp \o Slash \o kbnPath]
        ELSE [kind |-> "notFound", location |-> None]

(***************************************************************************)
(* The workers and their listeners.                                        *)
(***************************************************************************)
NoWorker == [type |-> "absent", listening |-> FALSE, crashed |-> FALSE]
WorkerTypes == {"server", "optimizer"}
Events == {"listening", "crashed"}

Present(w) == workers[w] # NoWorker

\* EventEmitter.on: the listener is added at the end of the event's array
On(ls, w, ev, r) == [ls EXCEPT ![w][ev] = Append(@, r)]

\* EventEmitter.removeListener: the most recently added instance goes
RECURSIVE RemoveLast(_, _)
RemoveLast(seq, r) ==
    IF seq = <<>> THEN <<>>
    ELSE IF seq[Len(seq)] = r THEN SubSeq(seq, 1, Len(seq) - 1)
    ELSE Append(RemoveLast(SubSeq(seq, 1, Len(seq) - 1), r), seq[Len(seq)])

RemoveListener(ls, w, ev, r) == [ls EXCEPT ![w][ev] = RemoveLast(@, r)]

Count(seq, r) == Cardinality({i \in DOMAIN seq : seq[i] = r})

(***************************************************************************)
(* The proxy route's pre-handler.  h = [listeners, req] is the part of the *)
(* state the pre-handler and its done callbacks read and write.            *)
(***************************************************************************)
\* the filter without its test of worker.type
WaitsOnAnyType(worker) ==
    worker.type # "absent" /\ ~worker.listening /\ ~worker.crashed

\* the filter with the negation of worker.listening lost
WaitsOnListening(worker) ==
    worker.type = "server" /\ worker.listening /\ ~worker.crashed

\* the worker filter of the pre-handler
WaitsOn(worker) ==
    worker.type = "server" /\ ~worker.listening /\ ~worker.crashed

\* the registration taking the worker's events for this request alone
RegisterAlone(ls, r, w) == [ls EXCEPT ![w] = [ev \in Events |-> <<r>>]]

\* the registration without its second line
RegisterListeningOnly(ls, r, w) == On(ls, w, "listening", r)

\* worker.on('listening', done); worker.on('crashed', done)
Register(ls, r, w) == On(On(ls, w, "listening", r), w, "crashed", r)

RECURSIVE RegisterAll(_, _, _)
RegisterAll(ls, r, ws) ==
    IF ws = {} THEN ls
    ELSE LET w == CHOOSE x \in ws : \A y \in ws : x <= y
         IN  RegisterAll(Register(ls, r, w), r, ws \ {w})

Bump(n) == IF n < CallCap THEN n + 1 ELSE n

\* cb() of fromNode: the worker's promise resolves on the first call
Cb(rq, w) ==
    [rq EXCEPT !.cbCalls[w] = Bump(@), !.resolved = @ \cup {w}]

\* done without its second removeListener call
DoneLeavesCrashed(h, r, w) ==
    [listeners |-> RemoveListener(h.listeners, w, "listening", r),
     req |-> [h.req EXCEPT ![r] = Cb(@, w)]]

\* done without its call of cb
DoneWithoutCb(h, r, w) ==
    [listeners |->
        RemoveListener(RemoveListener(h.listeners, w, "listening", r),
                       w, "crashed", r),
     req |-> h.req]

\* done without its two removeListener calls
DoneKeepsListeners(h, r, w) ==
    [listeners |-> h.listeners, req |-> [h.req EXCEPT ![r] = Cb(@, w)]]

\* done of request r on worker w
Done(h, r, w) ==
    [listeners |->
        RemoveListener(RemoveListener(h.listeners, w, "listening", r),
                       w, "crashed", r),
     req |-> [h.req EXCEPT ![r] = Cb(@, w)]]

\* EventEmitter.emit: every listener of a copy of the array is called in order
RECURSIVE CallAll(_, _, _)
CallAll(h, w, clone) ==
    IF clone = <<>> THEN h
    ELSE CallAll(Done(h, Head(clone), w), w, Tail(clone))

Emit(h, w, ev) == CallAll(h, w, h.listeners[w][ev])

NoCalls == [w \in WorkerIds |-> 0]

IdleReq ==
    [st |-> "idle", method |-> "none", path |-> None, route |-> "none",
     location |-> None, waits |-> {}, resolved |-> {}, cbCalls |-> NoCalls,
     replyCalls |-> 0, replyErr |-> "none", disconnected |-> FALSE,
     snapshot |-> {}, emitted |-> {}, events |-> 0]

\* The state of a worker, and the server workers that are starting now: what a
\* request admitted now is to wait for.  Kept with the request (snapshot), with
\* the workers among them that have emitted an event since (emitted) and the
\* number of those events (events), for the properties to refer to.
StateOf(worker) ==
    IF worker.crashed THEN "crashed"
    ELSE IF worker.listening THEN "listening" ELSE "starting"

Starting ==
    {w \in WorkerIds :
        Present(w) /\ workers[w].type = "server" /\ StateOf(workers[w]) = "starting"}

\* the pre-handler set on every route: an answered request has its waits too
HandledAllGated(r, method, path) ==
    LET route == Lookup(method, path, basePath)
        in == [IdleReq EXCEPT !.method = method, !.path = path, !.route = route,
                              !.waits = {w \in WorkerIds : WaitsOn(workers[w])},
                              !.snapshot = Starting]
        answer(res) == [in EXCEPT !.st = res.kind, !.location = res.location]
    IN  CASE route = "root" -> answer(RootHandler(basePath))
          [] route = "legacy" -> answer(LegacyHandler(method, path, basePath))
          [] route = "proxy" -> [in EXCEPT !.st = "waiting"]
          [] OTHER -> answer([kind |-> "notFound", location |-> None])

\* What a request becomes when the server has routed it and run the route's
\* handler, or its pre-handler up to the promise it waits on.
Handled(r, method, path) ==
    LET route == Lookup(method, path, basePath)
        in == [IdleReq EXCEPT !.method = method, !.path = path, !.route = route]
        answer(res) == [in EXCEPT !.st = res.kind, !.location = res.location]
    IN  CASE route = "root" -> answer(RootHandler(basePath))
          [] route = "legacy" -> answer(LegacyHandler(method, path, basePath))
          [] route = "proxy" ->
                [in EXCEPT !.st = "waiting",
                           !.waits = {w \in WorkerIds : WaitsOn(workers[w])},
                           !.snapshot = Starting]
          [] OTHER -> answer([kind |-> "notFound", location |-> None])

(***************************************************************************)
(* The actions.                                                            *)
(***************************************************************************)
Init ==
    /\ phase = "new"
    /\ settings = None
    /\ config = NoConfig
    /\ basePath = None
    /\ proxyAgent = "none"
    /\ routes = {}
    /\ error = "none"
    /\ steps = <<>>
    /\ workers = [w \in WorkerIds |-> NoWorker]
    /\ listeners = [w \in WorkerIds |-> [ev \in Events |-> <<>>]]
    /\ req = [r \in ReqIds |-> IdleReq]

\* new BasePathProxy(clusterManager, userSettings)
Constructor(s) ==
    /\ phase = "new"
    /\ LET out == BasePathProxy(s)
       IN  /\ phase' = out.phase
           /\ error' = out.error
           /\ config' = out.config
           /\ basePath' = out.basePath
           /\ proxyAgent' = out.proxyAgent
           /\ routes' = out.routes
           /\ steps' = out.steps
    /\ settings' = s
    /\ UNCHANGED <<workers, listeners, req>>

\* listen()
Listen ==
    /\ phase = "constructed"
    /\ phase' = "listening"
    /\ UNCHANGED <<settings, config, basePath, proxyAgent, routes, error, steps,
                   workers, listeners, req>>

\* A request arrives: the route is looked up and its handler, or pre-handler, runs.
Free(r) ==
    /\ phase = "listening"
    /\ req[r].st = "idle"
    /\ \A q \in ReqIds : q < r => req[q].st # "idle"

Request(r, method, path) ==
    /\ Free(r)
    /\ LET rq == Handled(r, method, path)
       IN  /\ req' = [req EXCEPT ![r] = rq]
           /\ listeners' = RegisterAll(listeners, r, rq.waits)
    /\ UNCHANGED <<phase, settings, config, basePath, proxyAgent, routes, error, steps,
                   workers>>

\* reply called as soon as one worker's promise has resolved
ReplyWhenAnyResolved(r) ==
    /\ req[r].st = "waiting"
    /\ req[r].resolved # {} \/ req[r].waits = {}
    /\ req' = [req EXCEPT ![r].st = "replied", ![r].replyCalls = Bump(@)]
    /\ UNCHANGED <<phase, settings, config, basePath, proxyAgent, routes, error, steps,
                   workers, listeners>>

\* reply called once no server worker is starting any more
ReplyRechecks(r) ==
    /\ req[r].st = "waiting"
    /\ req[r].resolved = req[r].waits
    /\ Starting = {}
    /\ req' = [req EXCEPT ![r].st = "replied", ![r].replyCalls = Bump(@)]
    /\ UNCHANGED <<phase, settings, config, basePath, proxyAgent, routes, error, steps,
                   workers, listeners>>

\* .return(undefined).nodeify(reply): every worker's promise has resolved
Reply(r) ==
    /\ req[r].st = "waiting"
    /\ req[r].resolved = req[r].waits
    /\ req' = [req EXCEPT ![r].st = "replied", ![r].replyCalls = Bump(@)]
    /\ UNCHANGED <<phase, settings, config, basePath, proxyAgent, routes, error, steps,
                   workers, listeners>>

\* the proxy handler takes the request
Forward(r) ==
    /\ req[r].st = "replied"
    /\ req' = [req EXCEPT ![r].st = "forwarded"]
    /\ UNCHANGED <<phase, settings, config, basePath, proxyAgent, routes, error, steps,
                   workers, listeners>>

\* the client of a waiting request goes away: no code of the proxy runs
Disconnect(r) ==
    /\ req[r].st = "waiting"
    /\ ~req[r].disconnected
    /\ req' = [req EXCEPT ![r].disconnected = TRUE]
    /\ UNCHANGED <<phase, settings, config, basePath, proxyAgent, routes, error, steps,
                   workers, listeners>>

\* The worker pool.  A worker is starting until it listens or crashes.
AddWorker(w, type) ==
    /\ ~Present(w)
    /\ \A v \in WorkerIds : v < w => Present(v)
    /\ workers' = [workers EXCEPT ![w] =
                      [type |-> type, listening |-> FALSE, crashed |-> FALSE]]
    /\ UNCHANGED <<phase, settings, config, basePath, proxyAgent, routes, error, steps,
                   listeners, req>>

\* the requests admitted so far have seen worker w emit an event
Emitted(rs, w) ==
    [r \in ReqIds |-> IF rs[r].st = "idle" THEN rs[r]
                      ELSE IF w \notin rs[r].snapshot THEN rs[r]
                      ELSE [rs[r] EXCEPT !.emitted = @ \cup {w},
                                         !.events = Bump(@)]]

WorkerEmits(w, ev) ==
    LET h == Emit([listeners |-> listeners, req |-> req], w, ev)
    IN  /\ listeners' = h.listeners
        /\ req' = Emitted(h.req, w)

WorkerListening(w) ==
    /\ Present(w)
    /\ ~workers[w].listening /\ ~workers[w].crashed
    /\ workers' = [workers EXCEPT ![w].listening = TRUE]
    /\ WorkerEmits(w, "listening")
    /\ UNCHANGED <<phase, settings, config, basePath, proxyAgent, routes, error, steps>>

WorkerCrashed(w) ==
    /\ Present(w)
    /\ ~workers[w].crashed
    /\ workers' = [workers EXCEPT ![w].listening = FALSE, ![w].crashed = TRUE]
    /\ WorkerEmits(w, "crashed")
    /\ UNCHANGED <<phase, settings, config, basePath, proxyAgent, routes, error, steps>>

WorkerRestart(w) ==
    /\ Present(w)
    /\ workers[w].listening \/ workers[w].crashed
    /\ workers' = [workers EXCEPT ![w].listening = FALSE, ![w].crashed = FALSE]
    /\ UNCHANGED <<phase, settings, config, basePath, proxyAgent, routes, error, steps,
                   listeners, req>>

(***************************************************************************)
(* The inputs.                                                             *)
(***************************************************************************)
Methods == {"get", "head", "post"}

RandomTriples ==
    {idx \in [1..3 -> 1..MaxSampleIdx] :
        idx[1] # idx[2] /\ idx[1] # idx[3] /\ idx[2] # idx[3]}

Settings(basePaths, triples) ==
    {[basePath |-> bp, maxPayload |-> 1048576, ssl |-> FALSE, ca |-> FALSE,
      keystore |-> FALSE, pem |-> FALSE, unreadable |-> "none", idx |-> idx] :
        bp \in basePaths, idx \in triples}

\* every sequence of at most n segments drawn from segs
RECURSIVE SegSeqs(_, _)
SegSeqs(segs, n) ==
    IF n = 0 THEN {<<>>}
    ELSE LET shorter == SegSeqs(segs, n - 1)
         IN  shorter \cup {Append(p, s) : p \in shorter, s \in segs}

\* every path of 1..n segments drawn from segs
Paths(segs, n) == {Slash \o Join(p) : p \in SegSeqs(segs, n) \ {<<>>}}

\* the paths under the base path bp, and bp itself
Under(bp, segs, n) == {bp} \cup {bp \o p : p \in Paths(segs, n)}

\* The requests of the gate's specification: the gate reads neither the method
\* nor the path of a request, so one path for each route.
GateSettings == Settings({None, Slash \o S_kb}, {<<1, 2, 3>>})
GateMethods == {"get", "post"}
GatePaths == {Slash, basePath \o Slash \o S_x, Slash \o S_app \o Slash \o S_login}

Next ==
    \/ \E s \in GateSettings : Constructor(s)
    \/ Listen
    \/ \E r \in ReqIds :
          Free(r) /\ \E m \in GateMethods, p \in GatePaths : Request(r, m, p)
    \/ \E r \in ReqIds : Reply(r)
    \/ \E r \in ReqIds : Forward(r)
    \/ \E r \in ReqIds : Disconnect(r)
    \/ \E w \in WorkerIds, t \in WorkerTypes : AddWorker(w, t)
    \/ \E w \in WorkerIds : WorkerListening(w)
    \/ \E w \in WorkerIds : WorkerCrashed(w)
    \/ \E w \in WorkerIds : WorkerRestart(w)

Spec == Init /\ [][Next]_vars

\* The requests of the router's specification: one request at a time, one
\* worker, and every path of up to MaxSegs segments.
RouterSettings ==
    Settings({None, Slash \o S_kb, Slash \o S_abc \o Slash \o S_app}, {<<1, 2, 3>>})
RouterSegs ==
    {Empty, S_abc, S_abcd, S_app, S_apps, S_login, S_logout, S_status, S_x}
RouterPaths ==
    Paths(RouterSegs, MaxSegs) \cup Under(basePath, RouterSegs, MaxSegs - 1)

RouterNext ==
    \/ \E s \in RouterSettings : Constructor(s)
    \/ Listen
    \/ Free(1) /\ \E m \in Methods, p \in RouterPaths : Request(1, m, p)
    \/ Reply(1)
    \/ Forward(1)
    \/ Disconnect(1)
    \/ \E t \in WorkerTypes : AddWorker(1, t)
    \/ WorkerListening(1)
    \/ WorkerCrashed(1)
    \/ WorkerRestart(1)

RouterSpec == Init /\ [][RouterNext]_vars

\* The constructor's specification: every kind of settings, then one request
\* and one worker.
ConstructorSettings ==
    {[basePath |-> bp, maxPayload |-> mp, ssl |-> ssl, ca |-> ca,
      keystore |-> ks, pem |-> pem, unreadable |-> un, idx |-> idx] :
        bp \in {None, Slash \o S_kb}, mp \in {1048576, 2147483647},
        ssl \in BOOLEAN, ca \in BOOLEAN, ks \in BOOLEAN, pem \in BOOLEAN,
        un \in {"none", "ca", "pfx", "key", "cert"}, idx \in RandomTriples}

ConstructorNext ==
    \/ \E s \in ConstructorSettings : Constructor(s)
    \/ Listen
    \/ Free(1) /\ \E m \in GateMethods, p \in GatePaths : Request(1, m, p)
    \/ Reply(1)
    \/ Forward(1)
    \/ Disconnect(1)
    \/ \E t \in WorkerTypes : AddWorker(1, t)
    \/ WorkerListening(1)
    \/ WorkerCrashed(1)
    \/ WorkerRestart(1)

ConstructorSpec == Init /\ [][ConstructorNext]_vars

(***************************************************************************)
(* The readiness gate.                                                     *)
(***************************************************************************)
Proxied(r) == req[r].route = "proxy"
PassedGate(r) == req[r].st \in {"replied", "forwarded"}
Observers(r, w, ev) == Count(listeners[w][ev], r)

\* C1: a request on the proxy route is handed to the forwarder only after
\* every server worker that was starting when it was admitted has emitted
\* 'listening' or 'crashed'; until then it is held, whatever its method:
\* neither answered nor forwarded.
GateHoldsUntilReady ==
    \A r \in ReqIds :
        Proxied(r) =>
            IF req[r].snapshot \subseteq req[r].emitted
            THEN req[r].st \in {"waiting", "replied", "forwarded"}
            ELSE req[r].st = "waiting"

\* a POST admitted while both workers were starting servers has been forwarded
GateHoldsUntilReadyWitness ==
    \E r \in ReqIds :
        /\ req[r].method = "post"
        /\ req[r].st = "forwarded"
        /\ Cardinality(req[r].snapshot) = 2

\* C2: the readiness wait of a request resolves once: reply is called at most
\* once and the callback of each worker's wait at most once, however many
\* events the workers waited on emit afterwards.
ResolvesOnce ==
    \A r \in ReqIds :
        /\ req[r].replyCalls <= 1
        /\ \A w \in WorkerIds : req[r].cbCalls[w] <= 1

\* the one worker a forwarded request waited on has emitted two events since
ResolvesOnceWitness ==
    \E r \in ReqIds, w \in WorkerIds :
        /\ req[r].st = "forwarded"
        /\ req[r].snapshot = {w}
        /\ req[r].events >= 2
        /\ req[r].replyCalls = 1
        /\ req[r].cbCalls[w] = 1

\* The promise callbacks and the handler that follows the pre-handler are run
\* by the event loop once they are due.
LiveSpec ==
    /\ Spec
    /\ \A r \in ReqIds : WF_vars(Reply(r)) /\ WF_vars(Forward(r))

AllEmitted(r) == Proxied(r) /\ req[r].snapshot \subseteq req[r].emitted

\* C3: once every server worker that was starting when a request was admitted
\* has emitted 'listening' or 'crashed', in whatever order, the request's wait
\* resolves and the request is handed to the forwarder.
GateReleases ==
    \A r \in ReqIds : AllEmitted(r) ~> (req[r].st = "forwarded")

\* a request that waited on two workers is forwarded after one of them came to
\* listen and the other crashed
GateReleasesWitness ==
    \E r \in ReqIds :
        /\ req[r].st = "forwarded"
        /\ req[r].snapshot = {1, 2}
        /\ req[r].events = 2
        /\ workers[1].crashed
        /\ workers[2].listening

\* worker w emits 'crashed' in this step
Crashes(w) == ~workers[w].crashed /\ workers'[w].crashed

Unobserved(r, w) ==
    Observers(r, w, "listening") = 0 /\ Observers(r, w, "crashed") = 0

\* C4: when a worker a request waits on emits 'crashed', the wait for that
\* worker is over as it is after 'listening': the request's observers are gone
\* from the worker, the request is not rejected and no error is passed to
\* reply; and a wait that is over is never taken up again.
CrashReleases ==
    [][\A r \in ReqIds, w \in WorkerIds :
          /\ (w \in req[r].snapshot /\ Crashes(w)) =>
                /\ w \in req'[r].resolved
                /\ Unobserved(r, w)'
                /\ req'[r].st \in {"waiting", "replied", "forwarded"}
                /\ req'[r].replyErr = "none"
          /\ w \in req[r].resolved =>
                w \in req'[r].resolved /\ Unobserved(r, w)']_vars

\* a request is forwarded after the one worker it waited on crashed, the only
\* event since the request was admitted
CrashReleasesWitness ==
    \E r \in ReqIds, w \in WorkerIds :
        /\ req[r].st = "forwarded"
        /\ req[r].snapshot = {w}
        /\ req[r].events = 1
        /\ workers[w].crashed
        /\ req[r].replyErr = "none"

\* C5: a request has no observer on a worker that, when the request was
\* admitted, was not a server, or was listening, or had crashed; and when there
\* was no starting server at all (the pool empty, or every server listening or
\* crashed) the wait is resolved as it stands: reply is due with no event of
\* any worker, and no observer is registered.
NoNeedlessObservers ==
    \A r \in ReqIds :
        /\ \A w \in WorkerIds : w \notin req[r].snapshot => Unobserved(r, w)
        /\ (req[r].st = "waiting" /\ req[r].snapshot = {}) => ENABLED Reply(r)

\* a request admitted past a listening server and a starting optimizer has
\* passed the gate with no event counted and no observer
NoNeedlessObserversWitness ==
    \E r \in ReqIds :
        /\ PassedGate(r)
        /\ req[r].snapshot = {}
        /\ req[r].events = 0
        /\ workers[1] = [type |-> "server", listening |-> TRUE, crashed |-> FALSE]
        /\ workers[2] = [type |-> "optimizer", listening |-> FALSE, crashed |-> FALSE]
        /\ \A w \in WorkerIds : Unobserved(r, w)

\* C6: on each worker a request has one 'listening' and one 'crashed' observer,
\* or none; the first event of a worker the request waits on removes both; and
\* once the request's wait has resolved none is left on any worker.
NoLeakedObservers ==
    \A r \in ReqIds, w \in WorkerIds :
        /\ Observers(r, w, "listening") = Observers(r, w, "crashed")
        /\ Observers(r, w, "listening") <= 1
        /\ w \in req[r].emitted => Unobserved(r, w)
        /\ PassedGate(r) => Unobserved(r, w)

\* a request that waited on both workers has passed the gate and left no
\* observer, while a later request still has its pair on a worker
NoLeakedObserversWitness ==
    \E r, q \in ReqIds, w \in WorkerIds :
        /\ PassedGate(r)
        /\ req[r].snapshot = {1, 2}
        /\ \A v \in WorkerIds : Unobserved(r, v)
        /\ req[q].st = "waiting"
        /\ Observers(q, w, "listening") = 1
        /\ Observers(q, w, "crashed") = 1

\* C7 as claimed: once the client of a waiting request has gone away, no
\* observer of that request is registered on any worker.
DisconnectDeregisters ==
    \A r \in ReqIds :
        req[r].disconnected => \A w \in WorkerIds : Unobserved(r, w)

\* C8: what a request has on a worker depends on that request alone.  Until
\* the worker emits, a request that waits on it has its own pair of observers,
\* whatever becomes of the other requests; the worker's first event resolves
\* the wait of every request that waits on it and removes that request's pair.
WaitersIndependent ==
    \A r \in ReqIds, w \in WorkerIds :
        Proxied(r) =>
            IF w \in req[r].snapshot \ req[r].emitted
            THEN /\ req[r].st = "waiting"
                 /\ w \notin req[r].resolved
                 /\ Observers(r, w, "listening") = 1
                 /\ Observers(r, w, "crashed") = 1
            ELSE /\ Unobserved(r, w)
                 /\ w \in req[r].snapshot => w \in req[r].resolved

\* one event of a worker has resolved the waits of two requests at once, while
\* the second of them still waits, with its pair, on the other worker
WaitersIndependentWitness ==
    \E w, v \in WorkerIds :
        /\ w # v
        /\ req[1].snapshot = {w}
        /\ req[2].snapshot = {w, v}
        /\ req[1].events = 1 /\ req[2].events = 1
        /\ w \in req[1].resolved /\ w \in req[2].resolved
        /\ req[1].st = "forwarded"
        /\ req[2].st = "waiting"
        /\ Observers(2, v, "listening") = 1

(***************************************************************************)
(* The routes' answers.                                                    *)
(***************************************************************************)
Arrived(r) == req[r].st # "idle"

\* where the first segment of a path ends: at its second '/', or at its end
FirstEnd(path) ==
    IF \E i \in 2..Len(path) : path[i] = "/"
    THEN CHOOSE i \in 2..Len(path) :
            path[i] = "/" /\ \A j \in 2..(i - 1) : path[j] # "/"
    ELSE Len(path) + 1

FirstSegment(path) == SubSeq(path, 2, FirstEnd(path) - 1)
Rest(path) == SubSeq(path, FirstEnd(path) + 1, Len(path))

\* /{segment}/{rest}: a segment of exactly 3 characters, and a rest that starts
\* with app/ or is one of login, logout, status
LegacyShape(path) ==
    /\ Len(FirstSegment(path)) = 3
    /\ \/ /\ Len(Rest(path)) >= 4
          /\ SubSeq(Rest(path), 1, 4) = <<"a", "p", "p", "/">>
       \/ Rest(path) = S_login
       \/ Rest(path) = S_logout
       \/ Rest(path) = S_status

RedirectedOntoBase(r) ==
    /\ req[r].st = "redirect"
    /\ req[r].location = basePath \o Slash \o Rest(req[r].path)

LegacyAnswer(r) ==
    /\ RedirectedOntoBase(r) <=> (req[r].method = "get" /\ LegacyShape(req[r].path))
    /\ (req[r].route = "legacy" /\ ~(req[r].method = "get" /\ LegacyShape(req[r].path)))
          => req[r].st = "notFound"

\* the path is the base path or lies under it
UnderBase(path) ==
    \/ path = basePath
    \/ /\ Len(path) > Len(basePath)
       /\ SubSeq(path, 1, Len(basePath) + 1) = basePath \o Slash

\* C9 as claimed: a request whose first segment is not the active base path is
\* redirected to basePath + '/' + rest exactly when it is a GET, its first
\* segment has 3 characters and rest starts with app/ or is login, logout or
\* status; any other request on the legacy route is answered not found.
LegacyRuleByFirstSegment ==
    \A r \in ReqIds :
        (Arrived(r) /\ Slash \o FirstSegment(req[r].path) # basePath)
            => LegacyAnswer(r)

\* C9, amended: the same of a request whose path is neither the active base
\* path nor under it.
LegacyRule ==
    \A r \in ReqIds :
        (Arrived(r) /\ ~UnderBase(req[r].path)) => LegacyAnswer(r)

\* GET /abc/app/x is redirected to /kb/app/x, abc never having been a base path
LegacyRuleWitness ==
    \E r \in ReqIds :
        /\ basePath = Slash \o S_kb
        /\ req[r].method = "get"
        /\ req[r].path = Slash \o S_abc \o Slash \o S_app \o Slash \o S_x
        /\ req[r].st = "redirect"
        /\ req[r].location = Slash \o S_kb \o Slash \o S_app \o Slash \o S_x

Gated(r) ==
    \/ req[r].route = "proxy"
    \/ req[r].st \in {"waiting", "replied", "forwarded"}
    \/ \E w \in WorkerIds : ~Unobserved(r, w)

\* C10 as claimed: every request whose path is '/' is answered with a redirect
\* to the active base path, and is neither gated nor forwarded.
RootRule ==
    \A r \in ReqIds :
        (Arrived(r) /\ req[r].path = Slash) =>
            /\ req[r].st = "redirect" /\ req[r].location = basePath
            /\ ~Gated(r)

\* C10, amended: every GET whose path is '/' is answered with a redirect to the
\* active base path; no request whose path is '/', whatever its method, is
\* gated or forwarded.
RootRuleOfGet ==
    \A r \in ReqIds :
        (Arrived(r) /\ req[r].path = Slash) =>
            /\ req[r].method = "get" =>
                  req[r].st = "redirect" /\ req[r].location = basePath
            /\ ~Gated(r)

\* GET / is redirected to the base path while a server worker is starting
RootRuleOfGetWitness ==
    \E r \in ReqIds, w \in WorkerIds :
        /\ req[r].method = "get"
        /\ req[r].path = Slash
        /\ req[r].st = "redirect"
        /\ req[r].location = basePath
        /\ workers[w] = [type |-> "server", listening |-> FALSE, crashed |-> FALSE]

\* C11: a request of any method whose path is the active base path or lies
\* under it is taken by the proxy route, never by the root or the legacy
\* route: it is held at the gate and then forwarded, never redirected or
\* answered not found, also when the base path has 3 characters and the rest
\* starts with app/ or is login, logout or status; and it is forwarded only
\* after its pre-handler has called reply, once, with every wait resolved.
ProxyRouteFirst ==
    \A r \in ReqIds :
        (Arrived(r) /\ UnderBase(req[r].path)) =>
            /\ req[r].route = "proxy"
            /\ req[r].st \in {"waiting", "replied", "forwarded"}
            /\ req[r].location = None
            /\ req[r].st = "forwarded" =>
                    /\ req[r].replyCalls = 1
                    /\ req[r].resolved = req[r].waits
                    /\ req[r].replyErr = "none"

\* GET /abc/app/x under the generated base path /abc has waited on a worker
\* and has been forwarded
ProxyRouteFirstWitness ==
    \E r \in ReqIds :
        /\ basePath = Slash \o S_abc
        /\ req[r].method = "get"
        /\ req[r].path = Slash \o S_abc \o Slash \o S_app \o Slash \o S_x
        /\ req[r].snapshot # {}
        /\ req[r].st = "forwarded"

Built == phase \in {"constructed", "listening"}
Did(step) == \E i \in DOMAIN steps : steps[i] = step

\* the base path of a built proxy: the configured one, with no config.set of
\* it, or '/' and 3 letters of the alphabet, set in the config
BasePathResolved ==
    Built =>
        /\ config.basePath = basePath
        /\ IF settings.basePath # None
           THEN basePath = settings.basePath /\ ~Did("set:server.basePath")
           ELSE /\ Len(basePath) = 4
                /\ basePath[1] = "/"
                /\ \A k \in 2..4 : \E i \in DOMAIN alphabet : alphabet[i] = basePath[k]
                /\ Did("set:server.basePath")
        /\ \A r \in ReqIds :
              req[r].st = "redirect" =>
                  SubSeq(req[r].location, 1, Len(basePath)) = basePath

\* C12: a configured server.basePath is used unchanged and the config is not
\* written; with none configured the base path is '/' followed by 3 letters of
\* the alphabet and is written back to server.basePath; and from construction
\* on neither the base path nor the config's entry changes, whatever requests
\* and worker events follow.
BasePathFixed ==
    [][/\ BasePathResolved'
       /\ phase # "new" => (basePath' = basePath /\ config' = config)]_vars

\* a proxy constructed with no base path configured listens with the
\* generated /bca and has redirected a request onto it
BasePathFixedWitness ==
    /\ phase = "listening"
    /\ settings.basePath = None
    /\ basePath = <<"/", "b", "c", "a">>
    /\ config.basePath = <<"/", "b", "c", "a">>
    /\ req[1].st = "redirect"
    /\ req[1].location = <<"/", "b", "c", "a">>

Constructing == phase # "new"
Conflicting == settings.keystore /\ settings.pem
IdentityFiles == {"read:pfx", "read:key", "read:cert"}
NothingSetUp ==
    /\ routes = {}
    /\ proxyAgent = "none"
    /\ \A step \in {Setup[i] : i \in DOMAIN Setup} : ~Did(step)

\* C13 as claimed: with server.ssl.keystore.path and server.ssl.certificate
\* both set, whatever the other settings, construction fails with the conflict
\* error, with no file read and nothing set up.
ConflictFailsFirst ==
    (Constructing /\ Conflicting) =>
        /\ phase = "failed"
        /\ error = "conflict"
        /\ steps = <<>>
        /\ NothingSetUp

\* C13: with server.ssl.enabled, and server.ssl.keystore.path and
\* server.ssl.certificate both set, construction fails with nothing set up:
\* with the conflict error, before the pfx, the key or the certificate is
\* read, unless a certificate authority's file is unreadable, which is read
\* first and fails construction with its read error.  With ssl not enabled
\* the two settings are not looked at and construction succeeds.
ConflictFailsBeforeIdentity ==
    (Constructing /\ Conflicting) =>
        IF ~settings.ssl THEN phase # "failed" /\ error = "none"
        ELSE /\ phase = "failed"
             /\ NothingSetUp
             /\ \A step \in IdentityFiles : ~Did(step)
             /\ IF settings.ca /\ settings.unreadable = "ca"
                THEN error = "readError" /\ steps = <<"read:ca">>
                ELSE error = "conflict"

\* construction has failed on the conflict, after the certificate authorities
\* were read, with a pfx that could not have been read
ConflictFailsBeforeIdentityWitness ==
    /\ phase = "failed"
    /\ error = "conflict"
    /\ settings.ssl /\ settings.ca /\ Conflicting
    /\ settings.unreadable = "pfx"
    /\ steps = <<"read:ca">>

\* C14: a construction that fails has read files and nothing more: no route,
\* no connection, the config as the settings made it, with no base path
\* generated and no payload limit set, and no request ever served; the proxy
\* listens only after a construction that threw nothing and set up everything.
NoPartialStartup ==
    /\ error # "none" <=> phase = "failed"
    /\ phase = "failed" =>
          /\ NothingSetUp
          /\ config = [basePath |-> settings.basePath,
                       maxPayloadBytes |-> settings.maxPayload]
          /\ basePath = settings.basePath
          /\ \A i \in DOMAIN steps : steps[i] \in IdentityFiles \cup {"read:ca"}
          /\ \A r \in ReqIds : req[r] = IdleReq
    /\ phase = "listening" =>
          /\ routes = RouteNames
          /\ \A i \in DOMAIN Setup : Did(Setup[i])

\* construction has failed on an unreadable certificate, with no base path
\* configured: none is in the config and the payload limit is the settings'
NoPartialStartupWitness ==
    /\ phase = "failed"
    /\ error = "readError"
    /\ settings.unreadable = "cert"
    /\ settings.basePath = None
    /\ settings.maxPayload = 1048576
    /\ config = [basePath |-> None, maxPayloadBytes |-> 1048576]
    /\ steps = <<"read:key", "read:cert">>

Letters ==
    {"a", "b", "c", "d", "e", "f", "g", "h", "i", "j", "k", "l", "m",
     "n", "o", "p", "q", "r", "s", "t", "u", "v", "w", "x", "y", "z"}

\* C17 as claimed: the alphabet a generated base path was drawn from has 26
\* entries, holds every letter from 'a' to 'z' and holds no letter twice.
AlphabetOfAllLetters ==
    (Built /\ settings.basePath = None) =>
        /\ Len(alphabet) = Cardinality(Letters)
        /\ \A c \in Letters : \E i \in DOMAIN alphabet : alphabet[i] = c
        /\ \A i, j \in DOMAIN alphabet : alphabet[i] = alphabet[j] => i = j

Pos(step) == CHOOSE i \in DOMAIN steps : steps[i] = step

\* C18: a built proxy's server.maxPayloadBytes is 1024 * 1024 * 1024 whatever
\* the settings gave, more or less, and was set before the connection and the
\* routes were set up.
PayloadLimitOverridden ==
    Built =>
        /\ config.maxPayloadBytes = 1024 * 1024 * 1024
        /\ Did("set:server.maxPayloadBytes")
        /\ Pos("set:server.maxPayloadBytes") < Pos("setupConnection")
        /\ Pos("set:server.maxPayloadBytes") < Pos("setupRoutes")

\* a proxy whose settings asked for a limit of 2147483647 bytes listens with
\* the limit of one gigabyte, over ssl
PayloadLimitOverriddenWitness ==
    /\ phase = "listening"
    /\ settings.maxPayload = 2147483647
    /\ config.maxPayloadBytes = 1073741824
    /\ proxyAgent = "pem"

\* worker w emits 'listening' or 'crashed' in this step
EmitsEvent(w) ==
    /\ workers'[w] # workers[w]
    /\ workers'[w].listening \/ workers'[w].crashed

\* C15: a request that waits on a worker stays as it is through every step in
\* which that worker emits nothing, whatever else the step does: it is not
\* forwarded, reply is called neither with nor without an error, and its two
\* observers stay on the worker.  There is no step of a timer.
NoTimeout ==
    [][\A r \in ReqIds, w \in WorkerIds :
          (/\ req[r].st = "waiting"
           /\ w \in req[r].snapshot \ req[r].emitted
           /\ ~EmitsEvent(w)) =>
              /\ req'[r].st = "waiting"
              /\ req'[r].replyCalls = 0
              /\ req'[r].replyErr = "none"
              /\ w \in req'[r].snapshot \ req'[r].emitted
              /\ Observers(r, w, "listening")' = 1
              /\ Observers(r, w, "crashed")' = 1]_vars

\* the first request still waits on worker 1, which has emitted nothing, after
\* worker 2 emitted twice and a second request was redirected
NoTimeoutWitness ==
    /\ req[1].st = "waiting"
    /\ req[1].snapshot = {1, 2}
    /\ req[1].emitted = {2}
    /\ req[1].events = 2
    /\ Observers(1, 1, "listening") = 1 /\ Observers(1, 1, "crashed") = 1
    /\ req[2].st = "redirect"

\* C16: a request routed to the root route, to the legacy route or to no route
\* is answered, with a redirect or with not found, in the step it arrives in,
\* also while server workers are starting: it waits on nothing, no listener
\* is added or removed, no worker changes and every other request stays as it
\* is; and once answered it never changes.
OnlyProxySuspends ==
    [][\A r \in ReqIds :
          /\ (~Arrived(r) /\ Arrived(r)' /\ req'[r].route # "proxy") =>
                /\ req'[r].st \in {"redirect", "notFound"}
                /\ req'[r].waits = {}
                /\ listeners' = listeners
                /\ workers' = workers
                /\ \A q \in ReqIds \ {r} : req'[q] = req[q]
          /\ (Arrived(r) /\ req[r].route # "proxy") => req'[r] = req[r]]_vars

\* the second request was redirected by the legacy route while the first
\* waits, with its observers, on a starting server
OnlyProxySuspendsWitness ==
    /\ req[1].st = "waiting"
    /\ req[1].snapshot = {1}
    /\ Observers(1, 1, "listening") = 1 /\ Observers(1, 1, "crashed") = 1
    /\ workers[1] = [type |-> "server", listening |-> FALSE, crashed |-> FALSE]
    /\ req[2].route = "legacy"
    /\ req[2].st = "redirect"
    /\ req[2].waits = {}

\* C19: the target of every redirect, of the root route and of the legacy
\* route, is a path a GET of which is routed to the proxy route and held at
\* its gate, not redirected again and not answered not found; the target of
\* the root route is the base path with no segment after it.
RedirectsLandOnProxy ==
    \A r \in ReqIds :
        req[r].st = "redirect" =>
            /\ Handled(r, "get", req[r].location).route = "proxy"
            /\ Handled(r, "get", req[r].location).st = "waiting"
            /\ req[r].route = "root" => req[r].location = basePath

\* GET / was redirected to the base path /abc/app, a GET of which is on the
\* proxy route
RedirectsLandOnProxyWitness ==
    \E r \in ReqIds :
        /\ req[r].path = Slash
        /\ req[r].st = "redirect"
        /\ basePath = Slash \o S_abc \o Slash \o S_app
        /\ req[r].location = Slash \o S_abc \o Slash \o S_app
        /\ Lookup("get", req[r].location, basePath) = "proxy"

\* C20: what a request on the proxy route waits on is the set of server
\* workers starting when it was admitted, and nothing later adds to it: a
\* worker outside that set has no observer of the request and no wait, and
\* once every worker of the set has emitted an event reply is due, whatever
\* workers are starting by then; a request past the gate has seen an event of
\* each worker of the set, no more.
SnapshotAtAdmission ==
    \A r \in ReqIds :
        Proxied(r) =>
            /\ req[r].waits = req[r].snapshot
            /\ \A w \in WorkerIds \ req[r].snapshot :
                  Unobserved(r, w) /\ w \notin req[r].resolved
            /\ (req[r].st = "waiting" /\ req[r].snapshot \subseteq req[r].emitted)
                  => ENABLED Reply(r)
            /\ PassedGate(r) => req[r].snapshot \subseteq req[r].emitted

\* a request that waited on worker 1 alone has been forwarded while worker 1,
\* restarted, and worker 2, added since, are both starting servers
SnapshotAtAdmissionWitness ==
    \E r \in ReqIds :
        /\ req[r].st = "forwarded"
        /\ req[r].snapshot = {1}
        /\ Starting = {1, 2}

====
